---- MODULE Spec2Model ----
(***************************************************************************)
(* A model of whois_recurse: WHOISClient (client.py), WHOISParser          *)
(* (parser.py) and the static zone table (servers.py).                     *)
(*                                                                         *)
(* Text is modelled at token level.  A Python str is a sequence of tokens  *)
(* (short runs of characters); a WHOIS response text is a sequence of      *)
(* lines, each line "Label Words: value" a record [label, value] whose     *)
(* label is a sequence of words and whose value is a str.  A line without  *)
(* a label is free text.  Case folding, stripping and substring tests are  *)
(* computed on the tokens.                                                 *)
(***************************************************************************)
EXTENDS Integers, Sequences, FiniteSets, TLC

\* ------------------------------------------------------------------ bounds
MaxDomains == 2      \* longest domain list handed to bulk_lookup
MaxConc == 2         \* largest concurrency argument handed to bulk_lookup

\* ----------------------------------------------------------- str helpers
\* Python's None, kept apart from every str the program can build.
None == << "<None>" >>

\* str.lower() on one token.
LowerTab ==
  [t \in {"Example", "COM", "WHOIS", "Whois", "Server", "Registrar",
          "Registrant", "Email", "Name", "Sponsoring", "Limited",
          "Try Again", "Unlimited", "x@WhoisGuard.com", "EMAIL", "E-mail",
          "Owner", "Admin", "Tech", "Billing", "Creation", "Date", "Created",
          "Domain", "Registry", "Expiry", "Expires", "Expiration", "Updated",
          "Last", "Update", "Nameserver", "Status"} |->
     CASE t = "Example" -> "example"
       [] t = "COM" -> "com"
       [] t = "WHOIS" -> "whois"
       [] t = "Whois" -> "whois"
       [] t = "Server" -> "server"
       [] t = "Registrar" -> "registrar"
       [] t = "Registrant" -> "registrant"
       [] t = "Email" -> "email"
       [] t = "Name" -> "name"
       [] t = "Sponsoring" -> "sponsoring"
       [] t = "Limited" -> "limited"
       [] t = "Try Again" -> "try again"
       [] t = "Unlimited" -> "unlimited"
       [] t = "x@WhoisGuard.com" -> "x@whoisguard.com"
       [] t = "EMAIL" -> "email"
       [] t = "E-mail" -> "e-mail"
       [] t = "Owner" -> "owner"
       [] t = "Admin" -> "admin"
       [] t = "Tech" -> "tech"
       [] t = "Billing" -> "billing"
       [] t = "Creation" -> "creation"
       [] t = "Date" -> "date"
       [] t = "Created" -> "created"
       [] t = "Domain" -> "domain"
       [] t = "Registry" -> "registry"
       [] t = "Expiry" -> "expiry"
       [] t = "Expires" -> "expires"
       [] t = "Expiration" -> "expiration"
       [] t = "Updated" -> "updated"
       [] t = "Last" -> "last"
       [] t = "Update" -> "update"
       [] t = "Nameserver" -> "nameserver"
       [] t = "Status" -> "status"]

LowerTok(t) == IF t \in DOMAIN LowerTab THEN LowerTab[t] ELSE t

\* str.lower()
Lower(s) == [i \in 1..Len(s) |-> LowerTok(s[i])]

IsSpace(t) == t \in {" ", "\r"}

RECURSIVE LStrip(_)
LStrip(s) == IF s # <<>> /\ IsSpace(Head(s)) THEN LStrip(Tail(s)) ELSE s

RECURSIVE RStrip(_)
RStrip(s) ==
  IF s # <<>> /\ IsSpace(s[Len(s)]) THEN RStrip(SubSeq(s, 1, Len(s) - 1)) ELSE s

\* str.strip()
Strip(s) == RStrip(LStrip(s))

\* str.split('.'): the runs of tokens between "." tokens (always >= 1 part).
RECURSIVE Split(_)
Split(s) ==
  IF \A i \in 1..Len(s) : s[i] # "."
    THEN << s >>
    ELSE LET k == CHOOSE i \in 1..Len(s) :
                     s[i] = "." /\ \A j \in 1..(i - 1) : s[j] # "."
         IN  << SubSeq(s, 1, k - 1) >> \o Split(SubSeq(s, k + 1, Len(s)))

\* '.'.join(parts)
RECURSIVE Join(_)
Join(parts) ==
  IF parts = <<>> THEN <<>>
  ELSE IF Len(parts) = 1 THEN parts[1]
  ELSE parts[1] \o <<".">> \o Join(Tail(parts))

\* "sub in tok" for the substrings the program looks for inside a token.
TokContains(tok, sub) ==
  \/ tok = sub
  \/ sub = "limited" /\ tok = "unlimited"
  \/ sub = "whoisguard" /\ tok = "x@whoisguard.com"
  \/ sub = "whois" /\ tok \in {"x@whoisguard.com", "whoisguard"}
  \/ sub = "@" /\ tok \in {"owner@personal-domain.com", "x@whoisguard.com",
                           "x@WhoisGuard.com", "owner@localhost"}

\* Python truthiness of an Optional[str].
Truthy(s) == s # None /\ s # <<>>

\* ------------------------------------------------------------ parser.py
\* A response line "Label Words: value".
Line(label, value) == [label |-> label, value |-> value]

\* All tokens of a text (labels and values), in order.
RECURSIVE TextTokens(_)
TextTokens(text) ==
  IF text = <<>> THEN <<>>
  ELSE Head(text).label \o Head(text).value \o TextTokens(Tail(text))

\* "sub in text.lower()"
TextContains(text, sub) ==
  LET toks == Lower(TextTokens(text))
  IN  \E i \in 1..Len(toks) : TokContains(toks[i], sub)

IsSuffix(p, l) ==
  Len(p) <= Len(l) /\ SubSeq(l, Len(l) - Len(p) + 1, Len(l)) = p

\* re.search(r'<pattern>: (.+)', line, re.IGNORECASE): the pattern's words
\* end the line's label and at least one character follows ": ".
PatternMatches(pattern, line) ==
  /\ pattern # <<>>
  /\ IsSuffix(Lower(pattern), Lower(line.label))
  /\ line.value # <<>>

\* Index of the leftmost line the pattern matches, 0 when none.
FirstMatch(text, pattern) ==
  IF \E i \in 1..Len(text) : PatternMatches(pattern, text[i])
    THEN CHOOSE i \in 1..Len(text) :
           /\ PatternMatches(pattern, text[i])
           /\ \A j \in 1..(i - 1) : ~PatternMatches(pattern, text[j])
    ELSE 0

FIELD_PATTERNS ==
  [registrar |-> << <<"Registrar">>, <<"Registrar", "Name">>,
                    <<"Sponsoring", "Registrar">> >>,
   creation_date |-> << <<"Creation", "Date">>, <<"Created", "Date">>,
                        <<"Created", "on">>, <<"Domain", "Created">> >>,
   expiry_date |-> << <<"Registry", "Expiry", "Date">>, <<"Expiry", "Date">>,
                      <<"Expires">>, <<"Expiration", "Date">> >>,
   updated_date |-> << <<"Updated", "Date">>, <<"Last", "Updated">>,
                       <<"Last", "Update">> >>,
   nameservers |-> << <<"Name", "Server">>, <<"Nameserver">>, <<"nserver">> >>,
   status |-> << <<"Domain", "Status">>, <<"Status">> >>]

FieldOrder ==
  << "registrar", "creation_date", "expiry_date", "updated_date",
     "nameservers", "status" >>

CONTACT_PATTERNS ==
  [registrant |-> << "Registrant", "Owner" >>,
   admin |-> << "Admin", "Administrative" >>,
   tech |-> << "Tech", "Technical" >>,
   billing |-> << "Billing" >>]

ContactOrder == << "registrant", "admin", "tech", "billing" >>

\* WHOISParser._extract_field: the first pattern, in list order, that matches
\* anywhere in the text supplies the value, stripped; None when none matches.
RECURSIVE _extract_field(_, _)
_extract_field(text, patterns) ==
  IF patterns = <<>> THEN None
  ELSE LET k == FirstMatch(text, Head(patterns))
       IN  IF k # 0 THEN Strip(text[k].value)
           ELSE _extract_field(text, Tail(patterns))

\* WHOISParser.extract_registrar_whois
extract_registrar_whois(text) ==
  _extract_field(text, << <<"Registrar", "WHOIS", "Server">>,
                          <<"Registrar", "Whois">>,
                          <<"WHOIS", "Server">> >>)

\* '.' in email.split('@')[1], on the tokens of an email
DotAfterAt(email) ==
  \E i \in 1..Len(email) :
    /\ TokContains(email[i], "@")
    /\ \A j \in 1..(i - 1) : ~TokContains(email[j], "@")
    /\ \/ email[i] \in {"owner@personal-domain.com", "x@whoisguard.com",
                        "x@WhoisGuard.com"}
       \/ \E j \in (i + 1)..Len(email) :
            email[j] = "." /\ \A m \in (i + 1)..j : ~TokContains(email[m], "@")

\* WHOISParser._is_valid_email (every modelled email is far below 254
\* characters)
_is_valid_email(email) ==
  /\ Truthy(email)
  /\ \E i \in 1..Len(email) : TokContains(email[i], "@")
  /\ DotAfterAt(email)

\* WHOISParser.extract_contact_email
extract_contact_email(text, contact_type) ==
  LET email == _extract_field(text, << <<contact_type, "Email">>,
                                       <<contact_type, "E-mail">>,
                                       <<contact_type, "EMAIL">> >>)
  IN  IF Truthy(email) /\ _is_valid_email(email) THEN Strip(email) ELSE None

\* The tokens the generic email pattern of extract_all_emails matches.
EmailShaped(tok) ==
  tok \in {"owner@personal-domain.com", "x@whoisguard.com", "x@WhoisGuard.com"}

\* WHOISParser.extract_all_emails (a set: the list is deduplicated and its
\* order is not significant)
extract_all_emails(text) ==
  LET toks == TextTokens(text)
  IN  { toks[i] : i \in { j \in 1..Len(toks) :
          /\ EmailShaped(toks[j])
          /\ \A x \in {"abuse", "whois", "example", "hostmaster", "noc@",
                       "admin@", "postmaster", "spam"} :
               ~TokContains(LowerTok(toks[j]), x) } }

\* The standard fields of parse_full: field |-> value for the fields whose
\* value is truthy.
RECURSIVE StandardFields(_, _)
StandardFields(text, fields) ==
  IF fields = <<>> THEN <<>>
  ELSE LET f == Head(fields)
           value == _extract_field(text, FIELD_PATTERNS[f])
           rest == StandardFields(text, Tail(fields))
       IN  IF Truthy(value) THEN (f :> value) @@ rest ELSE rest

\* The email of one role: the first label synonym that yields a valid email.
RECURSIVE RoleEmail(_, _)
RoleEmail(text, names) ==
  IF names = <<>> THEN None
  ELSE LET email == extract_contact_email(text, Head(names))
       IN  IF Truthy(email) THEN email ELSE RoleEmail(text, Tail(names))

RECURSIVE ContactEmails(_, _)
ContactEmails(text, roles) ==
  IF roles = <<>> THEN <<>>
  ELSE LET r == Head(roles)
           email == RoleEmail(text, CONTACT_PATTERNS[r])
           rest == ContactEmails(text, Tail(roles))
           key == CASE r = "registrant" -> "registrant_email"
                    [] r = "admin" -> "admin_email"
                    [] r = "tech" -> "tech_email"
                    [] r = "billing" -> "billing_email"
       IN  IF Truthy(email) THEN (key :> email) @@ rest ELSE rest

privacy_protected(text) ==
  \E p \in {"identity-protection", "domainsbyproxy", "whoisguard"} :
    TextContains(text, p)

\* WHOISParser.parse_full.  query_time (the wall clock) and raw_length (a
\* character count) are not part of the model.
parse_full(domain, text, thin_server) ==
  ("domain" :> domain) @@ ("thin_server" :> thin_server)
    @@ ("registrar_server" :> extract_registrar_whois(text))
    @@ StandardFields(text, FieldOrder)
    @@ ContactEmails(text, ContactOrder)
    @@ ("all_emails" :> extract_all_emails(text))
    @@ ("privacy_protected" :> privacy_protected(text))

\* ----------------------------------------------------------- servers.py
INITIAL_SERVERS ==
  (<<"com">> :> <<"whois.verisign-grs.com">>)
    @@ (<<"net">> :> <<"whois.verisign-grs.com">>)
    @@ (<<"org">> :> <<"whois.pir.org">>)
    @@ (<<"io">> :> <<"whois.nic.io">>)
    @@ (<<"ai">> :> <<"whois.nic.ai">>)
    @@ (<<"app">> :> <<"whois.nic.google">>)
    @@ (<<"dev">> :> <<"whois.nic.google">>)
    @@ (<<"cloud">> :> <<"whois.nic.cloud">>)
    @@ (<<"co">> :> <<"whois.nic.co">>)
    @@ (<<"me">> :> <<"whois.nic.me">>)
    @@ (<<"tv">> :> <<"whois.nic.tv">>)
    @@ (<<"in">> :> <<"whois.registry.in">>)
    @@ (<<"uk">> :> <<"whois.nic.uk">>)
    @@ (<<"de">> :> <<"whois.denic.de">>)
    @@ (<<"eu">> :> <<"whois.eu">>)
    @@ (<<"ca">> :> <<"whois.cira.ca">>)
    @@ (<<"jp">> :> <<"whois.jprs.jp">>)
    @@ (<<"au">> :> <<"whois.auda.org.au">>)
    @@ (<<"fr">> :> <<"whois.nic.fr">>)
    @@ (<<"br">> :> <<"whois.registro.br">>)
    @@ (<<"edu">> :> <<"whois.educause.edu">>)
    @@ (<<"gov">> :> <<"whois.dotgov.gov">>)
    @@ (<<"mil">> :> <<"whois.nic.mil">>)

\* ------------------------------------------------------------ client.py
\* The timeout a client is constructed with.
DefaultTimeout == 10

\* An exception: its class and its str().
Exc(type, msg) == [type |-> type, msg |-> msg]

NoExc == Exc("", <<>>)

\* What a socket operation can raise.
ConnectFaults ==
  { Exc("gaierror", <<"[Errno -2] Name or service not known">>),
    Exc("refused", <<"[Errno 111] Connection refused">>),
    Exc("timeout", <<"timed out">>),
    Exc("oserror", <<"[Errno 101] Network is unreachable">>) }

RecvFaults ==
  { Exc("timeout", <<"timed out">>),
    Exc("oserror", <<"[Errno 104] Connection reset by peer">>) }

\* _extract_tld without the test on the number of labels.
_extract_tld_any_length(domain) ==
  LET parts == Split(domain)
      n == Len(parts)
  IN  IF n >= 2 /\ parts[n - 1] \in { <<"co">>, <<"org">>, <<"com">> }
        THEN Join(SubSeq(parts, n - 1, n))
        ELSE parts[n]

\* WHOISClient._extract_tld
_extract_tld(domain) ==
  LET parts == Split(domain)
      n == Len(parts)
  IN  IF n > 2 /\ parts[n - 1] \in { <<"co">>, <<"org">>, <<"com">> }
        THEN Join(SubSeq(parts, n - 1, n))
        ELSE parts[n]

\* The except clause of _query: a name-resolution failure becomes
\* ServerNotFoundError, every other exception passes through.
_query_except(e, server) ==
  IF e.type = "gaierror"
    THEN Exc("ServerNotFoundError", <<"Unknown WHOIS server: ">> \o server)
    ELSE e

\* lookup_except with the catch-all clause alone.
lookup_except_catch_all(e, domain, tld) ==
  Exc("WHOISError", <<"WHOIS lookup failed: ">> \o e.msg)

\* The except clauses of lookup, in order.
lookup_except(e, domain, tld) ==
  CASE e.type = "timeout" ->
         Exc("QueryTimeoutError", <<"WHOIS query timed out for ">> \o domain)
    [] e.type = "refused" ->
         Exc("ServerNotFoundError",
             <<"Cannot connect to WHOIS server for ">> \o tld)
    [] OTHER -> Exc("WHOISError", <<"WHOIS lookup failed: ">> \o e.msg)

\* The rate-limit test of _query on one received chunk.
RateLimited(data) ==
  TextContains(data, "limited") \/ TextContains(data, "try again")

\* bytes.decode('utf-8', errors='ignore'): undecodable bytes are dropped.
DecodeStr(s) == SelectSeq(s, LAMBDA t : t # "\\xff")

Decode(text) ==
  [i \in 1..Len(text) |->
     Line(DecodeStr(text[i].label), DecodeStr(text[i].value))]

\* response += data over the chunks received
RECURSIVE Concat(_)
Concat(chunks) ==
  IF chunks = <<>> THEN <<>> ELSE Head(chunks) \o Concat(Tail(chunks))

\* The text of a line as it stands in the response.
RenderLine(l) == l.label \o <<": ">> \o l.value

\* re.search(r'whois:\s*(.+)', iana_data, re.IGNORECASE) and
\* match.group(1).strip() in _get_whois_server: None when nothing matches.
\* \s* also runs over line ends, so a "whois:" line with a blank value
\* captures the line that follows it.
iana_match(text) ==
  LET Capture(k) ==
        IF LStrip(text[k].value) # <<>> THEN Strip(text[k].value)
        ELSE IF k < Len(text) THEN Strip(RenderLine(text[k + 1]))
        ELSE IF text[k].value # <<>> THEN <<>>
        ELSE None
      hits == { k \in 1..Len(text) :
                  /\ text[k].label # <<>>
                  /\ IsSuffix(<<"whois">>, Lower(text[k].label))
                  /\ Capture(k) # None }
  IN  IF hits = {} THEN None
      ELSE Capture(CHOOSE k \in hits : \A j \in hits : k <= j)

\* The default of _get_whois_server: f"whois.nic.{tld}"
DefaultServer(tld) == <<"whois.nic.">> \o tld

\* _get_whois_server after the root query returned iana_data.
ServerFromIana(tld, iana_data) ==
  LET server == iana_match(iana_data)
  IN  IF server # None THEN server ELSE DefaultServer(tld)

\* referral_target with the follow_referrals flag forgotten.
referral_target_flag_ignored(follow_referrals, thin_data) ==
  LET registrar_server == extract_registrar_whois(thin_data)
  IN  IF Truthy(registrar_server) THEN registrar_server ELSE None

\* The referral lookup follows after the thin query (None: no thick query).
referral_target(follow_referrals, thin_data) ==
  IF follow_referrals
    THEN LET registrar_server == extract_registrar_whois(thin_data)
         IN  IF Truthy(registrar_server) THEN registrar_server ELSE None
    ELSE None

\* lookup_result with the raw short-circuit forgotten.
lookup_result_raw_ignored(raw, domain, thick_data, initial_server) ==
  [value |-> parse_full(domain, thick_data, initial_server), parsed |-> TRUE]

\* The end of lookup: the raw payload, or the parsed record.
lookup_result(raw, domain, thick_data, initial_server) ==
  IF raw
    THEN [value |-> ("raw" :> thick_data), parsed |-> FALSE]
    ELSE [value |-> parse_full(domain, thick_data, initial_server),
          parsed |-> TRUE]

\* ------------------------------------------------- the network's answers
S1 == <<"whois.registrar-example.com">>
S2 == <<"whois.other-registrar.net">>

\* A thin answer: a registrar line and a referral to S1.
R_thin ==
  << << Line(<<"Registrar">>, <<"Thin Registry Registrar">>),
        Line(<<"Registrar", "WHOIS", "Server">>, S1 \o <<"\r">>) >> >>

\* A thick answer in two chunks: registrar and registrant email, no referral.
R_thick ==
  << << Line(<<"Registrar">>, <<"Example Registrar, Inc.">>) >>,
     << Line(<<"Registrant", "Email">>, <<"owner@personal-domain.com">>) >> >>

\* An answer that refers on to S2 and names a privacy proxy.
R_proxy ==
  << << Line(<<"Sponsoring", "Registrar">>, <<"Other Registrar">>),
        Line(<<"Whois", "Server">>, S2),
        Line(<<"Registrant", "Email">>, <<"x@WhoisGuard.com">>) >> >>

\* An answer throttled in its second chunk; a third chunk would follow.
R_limited ==
  << << Line(<<"Registrar", "Whois">>, S1) >>,
     << Line(<<>>, <<"Query", " ", "rate", " ", "Limited">>) >>,
     << Line(<<"Registrar">>, <<"Too Late Registrar">>) >> >>

\* The root server's answer for a zone, with an undecodable byte.
R_iana ==
  << << Line(<<>>, <<"%", " ", "IANA", "\\xff">>),
        Line(<<"whois">>, <<" ", "whois.nic.example-zone">>) >> >>

\* The peer closes at once: an empty answer.
R_empty == << >>

Responses == { R_thin, R_thick, R_proxy, R_limited, R_iana, R_empty }

\* The answers and faults met by the lookups of a bulk call: a smaller
\* network, since the lookups of a bulk call run side by side.
BulkResponses == { R_thin }

BulkFaults == { Exc("refused", <<"[Errno 111] Connection refused">>) }

\* ------------------------------------------------------- the callers' inputs
D_com == <<"example", ".", "com">>
D_COM == <<" ", "Example", ".", "COM">>
D_zz == <<"a", ".", "zz">>
D_couk == <<"example", ".", "co", ".", "uk">>

Domains == { D_com, D_COM, D_zz, D_couk }

BulkDomains == { D_com, D_COM }

RECURSIVE SeqsUpTo(_, _)
SeqsUpTo(S, n) ==
  IF n = 0 THEN { <<>> }
  ELSE LET shorter == SeqsUpTo(S, n - 1)
       IN  shorter \cup { Append(q, x) : q \in shorter, x \in S }

\* -------------------------------------------------------------- the state
VARIABLES
  client,    \* the WHOISClient: timeout, follow_referrals, _cache
  call,      \* the call in progress: lookup or bulk_lookup, and how it ended
  tasks,     \* one lookup invocation per domain of the call
  socks,     \* per lookup, the sockets its root, thin and thick queries made
  results,   \* the results list of bulk_lookup, each entry with its future
  servers,   \* the module-level dict INITIAL_SERVERS of servers.py
  px         \* a direct call of a parser or client helper: input and output

vars == << client, call, tasks, socks, results, servers, px >>

Phases == { "root", "thin", "thick" }

NoOut == [kind |-> "none", value |-> <<>>, exc |-> NoExc]

IdleCall ==
  [kind |-> "none", domains |-> <<>>, raw |-> FALSE, concurrency |-> 0,
   status |-> "idle", exc |-> NoExc]

NewTask(d, raw) ==
  [domain |-> d, raw |-> raw, pc |-> "queued", phase |-> "start",
   norm |-> <<>>, tld |-> <<>>, initial_server |-> None, server |-> None,
   followed |-> None, iana_data |-> <<>>, thin_data |-> <<>>,
   thick_data |-> <<>>, rx |-> <<>>, cause |-> [p \in Phases |-> ""],
   out |-> NoOut, worker |-> 0,
   queries |-> <<>>, hist |-> <<>>]

Ev(ev, ph) == [ev |-> ev, ph |-> ph]

\* self._query(server, text) is called.
StartQuery(t, phase, server, text) ==
  [t EXCEPT !.pc = "connect", !.phase = phase, !.server = server,
            !.rx = <<>>,
            !.queries = Append(@, [phase |-> phase, server |-> server,
                                   text |-> text]),
            !.hist = Append(@, Ev("query", phase))]

\* Finish returning the thin text where it should return thick_data.
Finish_thin_text(t, thick_data) ==
  LET r == lookup_result(t.raw, t.norm, t.thin_data, t.initial_server)
  IN  [t EXCEPT !.pc = "done", !.phase = "end", !.worker = 0,
                !.thick_data = thick_data,
                !.out = [kind |-> "return", value |-> r.value, exc |-> NoExc],
                !.hist = @ \o (IF r.parsed THEN << Ev("parse", "end") >>
                               ELSE <<>>)
                           \o << Ev("return", "end") >>]

\* lookup returns: lines 62-66.
Finish(t, thick_data) ==
  LET r == lookup_result(t.raw, t.norm, thick_data, t.initial_server)
  IN  [t EXCEPT !.pc = "done", !.phase = "end", !.worker = 0,
                !.thick_data = thick_data,
                !.out = [kind |-> "return", value |-> r.value, exc |-> NoExc],
                !.hist = @ \o (IF r.parsed THEN << Ev("parse", "end") >>
                               ELSE <<>>)
                           \o << Ev("return", "end") >>]

\* lookup raises e.
Raise(t, e) ==
  [t EXCEPT !.pc = "done", !.phase = "end", !.worker = 0,
            !.out = [kind |-> "raise", value |-> <<>>, exc |-> e],
            !.hist = Append(@, Ev("raise", "end"))]

\* lookup, line 50: the thin query is issued to the resolved server.
Resolved(t, server) ==
  StartQuery([t EXCEPT !.initial_server = server], "thin", server, t.norm)

\* AfterQueryReturn following a referral found in the thick response.
AfterQueryReturn_chained(t, text, follow_referrals) ==
  LET u == [t EXCEPT !.hist = Append(@, Ev("ok", t.phase))]
  IN  CASE t.phase = "root" ->
             Resolved([u EXCEPT !.iana_data = text],
                      ServerFromIana(t.tld, text))
        [] t.phase = "thin" ->
             LET v == [u EXCEPT !.thin_data = text]
                 registrar_server == referral_target(follow_referrals, text)
             IN  IF registrar_server # None
                   THEN StartQuery([v EXCEPT !.followed = registrar_server],
                                   "thick", registrar_server, t.norm)
                   ELSE Finish(v, text)
        [] t.phase = "thick" ->
             LET next_server == referral_target(follow_referrals, text)
             IN  IF next_server # None
                   THEN StartQuery(u, "thick", next_server, t.norm)
                   ELSE Finish(u, text)

\* _query returned text: the caller goes on to its next blocking call.
AfterQueryReturn(t, text, follow_referrals) ==
  LET u == [t EXCEPT !.hist = Append(@, Ev("ok", t.phase))]
  IN  CASE t.phase = "root" ->
             Resolved([u EXCEPT !.iana_data = text],
                      ServerFromIana(t.tld, text))
        [] t.phase = "thin" ->
             LET v == [u EXCEPT !.thin_data = text]
                 registrar_server == referral_target(follow_referrals, text)
             IN  IF registrar_server # None
                   THEN StartQuery([v EXCEPT !.followed = registrar_server],
                                   "thick", registrar_server, t.norm)
                   ELSE Finish(v, text)
        [] t.phase = "thick" -> Finish(u, text)

\* AfterQueryRaise without the try/except of _get_whois_server.
AfterQueryRaise_root_propagates(t, e) ==
  Raise([t EXCEPT !.hist = Append(@, Ev("fail", t.phase))],
        lookup_except(e, t.norm, t.tld))

\* AfterQueryRaise falling back on the thin response when the thick query
\* fails.
AfterQueryRaise_thick_fallback(t, e) ==
  LET u == [t EXCEPT !.hist = Append(@, Ev("fail", t.phase))]
  IN  CASE t.phase = "root" -> Resolved(u, DefaultServer(t.tld))
        [] t.phase = "thick" -> Finish(u, t.thin_data)
        [] OTHER -> Raise(u, lookup_except(e, t.norm, t.tld))

\* _query raised e (after its own except clause).
AfterQueryRaise(t, e) ==
  LET u == [t EXCEPT !.hist = Append(@, Ev("fail", t.phase))]
  IN  IF t.phase = "root"
        THEN Resolved(u, DefaultServer(t.tld))
        ELSE Raise(u, lookup_except(e, t.norm, t.tld))

\* _query raised e inside its try block.
QueryRaised(t, e) ==
  AfterQueryRaise([t EXCEPT !.cause[t.phase] = e.type],
                  _query_except(e, t.server))

\* Started with the static table never consulted.
Started_table_skipped(t) ==
  LET domain == Strip(Lower(t.domain))
      tld == _extract_tld(domain)
      u == [t EXCEPT !.norm = domain, !.tld = tld,
                     !.hist = Append(@, Ev("start", "start"))]
  IN  StartQuery(u, "root", <<"whois.iana.org">>, tld)

\* lookup, lines 42-46, up to its first query.
Started(t) ==
  LET domain == Strip(Lower(t.domain))
      tld == _extract_tld(domain)
      u == [t EXCEPT !.norm = domain, !.tld = tld,
                     !.hist = Append(@, Ev("start", "start"))]
  IN  IF tld \in DOMAIN servers
        THEN Resolved(u, servers[tld])
        ELSE StartQuery(u, "root", <<"whois.iana.org">>, tld)

NoSocks == [p \in Phases |-> "none"]

\* No helper is being called directly.
NoPx ==
  [op |-> "none", field |-> "", text |-> <<>>, labels |-> <<>>,
   out |-> None, done |-> FALSE]

\* The network the lookups of the current call talk to.
Answers == IF call.kind = "bulk" THEN BulkResponses ELSE Responses

ConnectRaises == IF call.kind = "bulk" THEN BulkFaults ELSE ConnectFaults

RecvRaises == IF call.kind = "bulk" THEN {} ELSE RecvFaults

\* The chunks recv can deliver after the chunks rx.
NextChunks(rx) ==
  { r[Len(rx) + 1] : r \in { q \in Answers :
        Len(q) > Len(rx) /\ SubSeq(q, 1, Len(rx)) = rx } }

InFlight == { i \in 1..Len(tasks) : tasks[i].pc \in {"connect", "recv"} }

\* A lookup called directly runs on the caller's thread: when it ends, the
\* call ends.
CallAfter(t) ==
  IF call.kind = "lookup" /\ t.pc = "done"
    THEN [call EXCEPT !.status = IF t.out.kind = "return" THEN "returned"
                                 ELSE "raised",
                      !.exc = t.out.exc]
    ELSE call

Init ==
  /\ client \in { [timeout |-> DefaultTimeout, follow_referrals |-> f,
                   _cache |-> <<>>] : f \in BOOLEAN }
  /\ call = IdleCall
  /\ tasks = <<>>
  /\ socks = <<>>
  /\ results = <<>>
  /\ servers = INITIAL_SERVERS
  /\ px = NoPx

\* client.lookup(d, raw) is called.
CallLookup(d, raw) ==
  /\ call.status = "idle"
  /\ call' = [IdleCall EXCEPT !.kind = "lookup", !.domains = << d >>,
                              !.raw = raw, !.status = "running"]
  /\ tasks' = << NewTask(d, raw) >>
  /\ socks' = << NoSocks >>
  /\ UNCHANGED << client, servers, px, results >>

\* client.bulk_lookup(ds, c) is called: ThreadPoolExecutor(max_workers=c)
\* raises ValueError unless c > 0; otherwise one lookup per domain is
\* submitted.
CallBulk(ds, c) ==
  /\ call.status = "idle"
  /\ IF c <= 0
       THEN /\ call' = [IdleCall EXCEPT
                          !.kind = "bulk", !.domains = ds, !.concurrency = c,
                          !.status = "raised",
                          !.exc = Exc("ValueError",
                                      <<"max_workers must be greater than 0">>)]
            /\ tasks' = <<>>
            /\ socks' = <<>>
       ELSE /\ call' = [IdleCall EXCEPT
                          !.kind = "bulk", !.domains = ds, !.concurrency = c,
                          !.status = "running"]
            /\ tasks' = [i \in 1..Len(ds) |-> NewTask(ds[i], FALSE)]
            /\ socks' = [i \in 1..Len(ds) |-> NoSocks]
  /\ UNCHANGED << client, servers, px, results >>

\* The pool's threads that are running a lookup.
Busy == { tasks[j].worker : j \in InFlight }

\* The thread that runs the next lookup: 0 is the caller's own thread (a
\* direct lookup); in a pool, a thread that runs no lookup (the threads are
\* alike: the lowest-numbered one stands for any of them). A lookup that
\* ended has left its thread.
NextWorker ==
  IF call.kind # "bulk" THEN 0
  ELSE CHOOSE w \in (1..(Cardinality(Busy) + 1)) \ Busy :
         \A x \in (1..(Cardinality(Busy) + 1)) \ Busy : w <= x

\* Begin with a pool that starts a thread for every submitted lookup.
Begin_unbounded(i) ==
  /\ call.status = "running"
  /\ i \in 1..Len(tasks)
  /\ tasks[i].pc = "queued"
  /\ \A j \in 1..(i - 1) : tasks[j].pc # "queued"
  /\ tasks' = [tasks EXCEPT ![i] = [Started(tasks[i]) EXCEPT
                                      !.worker = NextWorker]]
  /\ UNCHANGED << client, servers, px, call, socks, results >>

\* A thread starts the next lookup: the caller's own thread, or a worker of
\* the pool taking the oldest queued item; the pool has at most
\* max_workers threads.
Begin(i) ==
  /\ call.status = "running"
  /\ i \in 1..Len(tasks)
  /\ tasks[i].pc = "queued"
  /\ \A j \in 1..(i - 1) : tasks[j].pc # "queued"
  /\ call.kind = "bulk" => Cardinality(InFlight) < call.concurrency
  /\ tasks' = [tasks EXCEPT ![i] = [Started(tasks[i]) EXCEPT
                                      !.worker = NextWorker]]
  /\ UNCHANGED << client, servers, px, call, socks, results >>

\* _query, lines 79-86: the socket is created, then connect and send either
\* succeed or raise.
Connect(i) ==
  /\ i \in 1..Len(tasks)
  /\ tasks[i].pc = "connect"
  /\ socks' = [socks EXCEPT ![i][tasks[i].phase] = "open"]
  /\ \/ /\ tasks' = [tasks EXCEPT ![i].pc = "recv"]
        /\ UNCHANGED call
     \/ \E e \in ConnectRaises :
          LET t == QueryRaised(tasks[i], e)
          IN  /\ tasks' = [tasks EXCEPT ![i] = t]
              /\ call' = CallAfter(t)
  /\ UNCHANGED << client, servers, px, results >>

\* TableAfterResolve storing the server the root answer named.
TableAfterResolve_learned(table, t, text) ==
  IF t.phase = "root" /\ iana_match(text) # None
    THEN [z \in DOMAIN table \cup { t.tld } |->
            IF z = t.tld THEN ServerFromIana(t.tld, text) ELSE table[z]]
    ELSE table

\* The zone->server table after the query of lookup t returned text:
\* _get_whois_server returns the server it found and stores it nowhere.
TableAfterResolve(table, t, text) == table

\* _query, lines 90-102: one pass of the read loop.
Recv(i) ==
  /\ i \in 1..Len(tasks)
  /\ tasks[i].pc = "recv"
  /\ \/ \E data \in NextChunks(tasks[i].rx) :
          LET t == [tasks[i] EXCEPT !.rx = Append(@, data)]
          IN  IF RateLimited(data)
                THEN LET u == QueryRaised(t,
                                Exc("RateLimitError",
                                    <<"Rate limited by ">> \o t.server))
                     IN  /\ tasks' = [tasks EXCEPT ![i] = u]
                         /\ call' = CallAfter(u)
                         /\ UNCHANGED << socks, servers >>
                ELSE /\ tasks' = [tasks EXCEPT ![i] = t]
                     /\ UNCHANGED << call, socks, servers >>
     \/ /\ tasks[i].rx \in Answers
        /\ LET t == AfterQueryReturn(tasks[i], Decode(Concat(tasks[i].rx)),
                                     client.follow_referrals)
           IN  /\ tasks' = [tasks EXCEPT ![i] = t]
               /\ call' = CallAfter(t)
        /\ socks' = [socks EXCEPT ![i][tasks[i].phase] = "closed"]
        /\ servers' = TableAfterResolve(servers, tasks[i],
                                        Decode(Concat(tasks[i].rx)))
     \/ \E e \in RecvRaises :
          LET t == QueryRaised(tasks[i], e)
          IN  /\ tasks' = [tasks EXCEPT ![i] = t]
              /\ call' = CallAfter(t)
              /\ UNCHANGED << socks, servers >>
  /\ UNCHANGED << client, px, results >>

\* The query of phase p of lookup i has exited.
Exited(i, p) ==
  /\ socks[i][p] # "none"
  /\ tasks[i].phase # p

\* A socket left open by a query that raised is closed when the garbage
\* collector frees it: once its exception is dropped (at once for the root
\* query, whose exception is swallowed; after the call for the others).
Finalize(i, p) ==
  /\ i \in 1..Len(tasks)
  /\ Exited(i, p)
  /\ socks[i][p] = "open"
  /\ p = "root" \/ call.status # "running"
  /\ socks' = [socks EXCEPT ![i][p] = "closed"]
  /\ UNCHANGED << client, servers, px, call, tasks, results >>

\* bulk_lookup, lines 151-160: as_completed yields a finished future and its
\* result, or an error entry, is appended.
Collect(i) ==
  /\ call.kind = "bulk"
  /\ call.status = "running"
  /\ i \in 1..Len(tasks)
  /\ tasks[i].pc = "done"
  /\ \A k \in 1..Len(results) : results[k].future # i
  /\ results' = Append(results,
       [future |-> i,
        entry |-> IF tasks[i].out.kind = "return"
                    THEN tasks[i].out.value
                    ELSE ("domain" :> tasks[i].domain)
                           @@ ("error" :> tasks[i].out.exc.msg)])
  /\ UNCHANGED << client, servers, px, call, tasks, socks >>

\* bulk_lookup, line 162: every future was yielded, the pool shuts down and
\* results is returned.
BulkReturn ==
  /\ call.kind = "bulk"
  /\ call.status = "running"
  /\ Len(results) = Len(tasks)
  /\ call' = [call EXCEPT !.status = "returned"]
  /\ UNCHANGED << client, servers, px, tasks, socks, results >>

\* The caller is done with the call's outcome and may call again.
NextCall ==
  /\ call.status \in {"returned", "raised"}
  /\ call' = IdleCall
  /\ tasks' = <<>>
  /\ socks' = <<>>
  /\ results' = <<>>
  /\ UNCHANGED << client, servers, px >>

Step ==
  \/ \E i \in 1..MaxDomains : Begin(i)
  \/ \E i \in 1..MaxDomains : Connect(i)
  \/ \E i \in 1..MaxDomains : Recv(i)
  \/ \E i \in 1..MaxDomains, p \in Phases : Finalize(i, p)
  \/ NextCall

\* Single lookups.
Next ==
  \/ \E d \in Domains, raw \in BOOLEAN : CallLookup(d, raw)
  \/ Step

Spec == Init /\ [][Next]_vars

\* Bulk lookups.
NextBulk ==
  \/ \E ds \in SeqsUpTo(BulkDomains, MaxDomains), c \in 0..MaxConc :
       CallBulk(ds, c)
  \/ Step
  \/ \E i \in 1..MaxDomains : Collect(i)
  \/ BulkReturn

SpecBulk == Init /\ [][NextBulk]_vars

\* ------------------------------------------- helpers called on their own
MaxLabels == 4       \* most labels of a domain handed to _extract_tld

ValueA == <<"Alpha">>
ValueB == <<"Beta">>

\* The fields _extract_field is called for: the six standard fields and the
\* referral of extract_registrar_whois.
PureFields ==
  { "registrar", "creation_date", "expiry_date", "updated_date",
    "nameservers", "status", "referral" }

\* The label variants of a field, in the order of its pattern list.
Variants(f) ==
  IF f = "referral"
    THEN << <<"Registrar", "WHOIS", "Server">>, <<"Registrar", "Whois">>,
            <<"WHOIS", "Server">> >>
    ELSE FIELD_PATTERNS[f]

\* Texts of two lines: two different label variants of the field, with
\* different values, in either order.
TwoVariantTexts(f) ==
  { << Line(Variants(f)[k[1]], v[1]), Line(Variants(f)[k[2]], v[2]) >> :
      k \in { x \in (1..Len(Variants(f))) \X (1..Len(Variants(f))) :
                x[1] # x[2] },
      v \in { <<ValueA, ValueB>>, <<ValueB, ValueA>> } }

DomainLabels == { "a", "b", "c", "example", "co", "org", "com", "uk", "io" }

\* The label lists of the domains handed to _extract_tld.
LabelLists == SeqsUpTo(DomainLabels, MaxLabels) \ { <<>> }

\* The labels as the str of a domain: one token per label.
RECURSIVE DomainOf(_)
DomainOf(labels) ==
  IF Len(labels) = 1 THEN << labels[1] >>
  ELSE << labels[1], "." >> \o DomainOf(Tail(labels))

InitPure ==
  /\ client = [timeout |-> DefaultTimeout, follow_referrals |-> TRUE,
               _cache |-> <<>>]
  /\ call = IdleCall
  /\ tasks = <<>>
  /\ socks = <<>>
  /\ results = <<>>
  /\ servers = INITIAL_SERVERS
  /\ px \in { [NoPx EXCEPT !.op = "field", !.field = f, !.text = text] :
                 f \in PureFields, text \in UNION { TwoVariantTexts(g) :
                                                     g \in PureFields } }
            \cup { [NoPx EXCEPT !.op = "tld", !.labels = l] :
                     l \in LabelLists }

\* parser._extract_field(text, FIELD_PATTERNS[field]), or
\* parser.extract_registrar_whois(text), is called.
ExtractField ==
  /\ px.op = "field"
  /\ ~px.done
  /\ px' = [px EXCEPT
              !.done = TRUE,
              !.out = IF px.field = "referral"
                        THEN extract_registrar_whois(px.text)
                        ELSE _extract_field(px.text, FIELD_PATTERNS[px.field])]
  /\ UNCHANGED << client, call, tasks, socks, results, servers >>

\* client._extract_tld(domain) is called.
ExtractTld ==
  /\ px.op = "tld"
  /\ ~px.done
  /\ px' = [px EXCEPT !.done = TRUE,
                      !.out = _extract_tld(DomainOf(px.labels))]
  /\ UNCHANGED << client, call, tasks, socks, results, servers >>

NextPure ==
  \/ ExtractField
  \/ ExtractTld

SpecPure == InitPure /\ [][NextPure]_vars

\* ------------------------------------------------------------- properties
Done(i) == i \in 1..Len(tasks) /\ tasks[i].pc = "done"

Happened(t, ev, ph) == \E k \in 1..Len(t.hist) : t.hist[k] = Ev(ev, ph)

\* C1: when bulk_lookup returns, the list holds exactly one outcome per
\* input domain and each outcome's 'domain' equals the input domain its
\* lookup was dispatched for.
C1_BulkOutcomesTagged ==
  (call.kind = "bulk" /\ call.status = "returned") =>
    /\ Len(results) = Len(call.domains)
    /\ \A k \in 1..Len(results) :
         results[k].entry["domain"] = call.domains[results[k].future]

\* C2: no exception escapes bulk_lookup, whatever the domain list and the
\* concurrency argument: the call never ends by raising.
C2_BulkNeverRaises ==
  call.kind = "bulk" => call.status # "raised"

\* C3: a query that has exited, on whatever path, has left its socket
\* closed.
C3_ExitedQuerySocketClosed ==
  \A i \in 1..Len(tasks) : \A p \in Phases :
    Exited(i, p) => socks[i][p] = "closed"

\* The exception that ended the thin or thick query of t, "" when none did.
Fault(t) == IF t.cause["thin"] # "" THEN t.cause["thin"] ELSE t.cause["thick"]

\* The thin or thick query of t ended on a throttled chunk.
Throttled(t) ==
  /\ t.pc = "done"
  /\ Fault(t) = "RateLimitError"
  /\ t.rx # <<>>
  /\ RateLimited(t.rx[Len(t.rx)])

\* C4: a throttled chunk in the thin or thick response makes lookup fail with
\* RateLimitError as its caller sees it, with no chunk read after the
\* throttled one and no text returned.
C4_RateLimitErrorObserved ==
  \A i \in 1..Len(tasks) :
    Throttled(tasks[i]) =>
      /\ tasks[i].out.kind = "raise"
      /\ tasks[i].out.exc.type = "RateLimitError"
      /\ tasks[i].out.value = <<>>
      /\ \A k \in 1..(Len(tasks[i].rx) - 1) : ~RateLimited(tasks[i].rx[k])

\* C5: a thin or thick server whose name does not resolve makes lookup fail
\* with ServerNotFoundError as its caller sees it.
C5_UnresolvedIsServerNotFound ==
  \A i \in 1..Len(tasks) :
    (Done(i) /\ Fault(tasks[i]) = "gaierror") =>
      /\ tasks[i].out.kind = "raise"
      /\ tasks[i].out.exc.type = "ServerNotFoundError"

\* C6: lookup(domain, raw=True) never runs parse_full, and when it returns
\* its payload has the one key 'raw', holding the decoded text of the last
\* response received.
C6_RawNeverParsed ==
  \A i \in 1..Len(tasks) :
    tasks[i].raw =>
      /\ ~Happened(tasks[i], "parse", "end")
      /\ (Done(i) /\ tasks[i].out.kind = "return") =>
           /\ DOMAIN tasks[i].out.value = {"raw"}
           /\ tasks[i].out.value["raw"] = Decode(Concat(tasks[i].rx))

C6_Witness ==
  \E i \in 1..Len(tasks) :
    /\ tasks[i].raw
    /\ Done(i)
    /\ tasks[i].out.kind = "return"
    /\ tasks[i].out.value["raw"] # <<>>

\* C7 as stated: with raw true and the thin query successful, lookup returns
\* the text of the last successful query: the thick response when a thick
\* query was made and succeeded, otherwise the thin response.
C7_RawReturnsLastSuccessful ==
  \A i \in 1..Len(tasks) :
    (tasks[i].raw /\ Done(i) /\ Happened(tasks[i], "ok", "thin")) =>
      /\ tasks[i].out.kind = "return"
      /\ tasks[i].out.value["raw"] =
           IF Happened(tasks[i], "ok", "thick")
             THEN Decode(Concat(tasks[i].rx))
             ELSE tasks[i].thin_data

\* C7 amended: with raw true and the thin query successful, lookup returns
\* the thick response when a thick query was made and succeeded and the thin
\* response when no thick query was made; when the thick query was made and
\* failed, lookup fails and returns no text.
C7_RawReturnsThickOrFails ==
  \A i \in 1..Len(tasks) :
    (tasks[i].raw /\ Done(i) /\ Happened(tasks[i], "ok", "thin")) =>
      IF Happened(tasks[i], "query", "thick")
        THEN IF Happened(tasks[i], "ok", "thick")
               THEN /\ tasks[i].out.kind = "return"
                    /\ tasks[i].out.value["raw"] = Decode(Concat(tasks[i].rx))
               ELSE /\ tasks[i].out.kind = "raise"
                    /\ tasks[i].out.value = <<>>
        ELSE /\ tasks[i].out.kind = "return"
             /\ tasks[i].out.value["raw"] = tasks[i].thin_data

C7_Witness ==
  \E i \in 1..Len(tasks) :
    /\ tasks[i].raw
    /\ Done(i)
    /\ Happened(tasks[i], "ok", "thick")
    /\ tasks[i].out.kind = "return"
    /\ tasks[i].out.value["raw"] # tasks[i].thin_data

\* C8: with follow_referrals disabled no lookup issues a thick query,
\* whatever the thin response holds, and a lookup whose thin query succeeded
\* returns the result derived from the thin response alone.
C8_NoThickQueryWhenDisabled ==
  ~client.follow_referrals =>
    \A i \in 1..Len(tasks) :
      /\ \A k \in 1..Len(tasks[i].queries) :
           tasks[i].queries[k].phase # "thick"
      /\ socks[i]["thick"] = "none"
      /\ (Done(i) /\ Happened(tasks[i], "ok", "thin")) =>
           /\ tasks[i].out.kind = "return"
           /\ tasks[i].out.value =
                lookup_result(tasks[i].raw, tasks[i].norm, tasks[i].thin_data,
                              tasks[i].initial_server).value

C8_Witness ==
  /\ ~client.follow_referrals
  /\ \E i \in 1..Len(tasks) :
       /\ Done(i)
       /\ tasks[i].out.kind = "return"
       /\ Truthy(extract_registrar_whois(tasks[i].thin_data))

\* C9: with referral following enabled, a thin response announcing
\* "Registrar WHOIS Server: S" and a thick response from S holding a
\* registrar line and a registrant-email line, the parsed record has
\* registrar_server = S, the registrar and registrant_email of the thick
\* response and privacy_protected = false.  (Stated for thick responses that
\* name no privacy proxy, as in the scenario the claim is drawn from.)
C9_EndToEndRecord ==
  \A i \in 1..Len(tasks) :
    LET t == tasks[i]
        kS == FirstMatch(t.thin_data, <<"Registrar", "WHOIS", "Server">>)
        kR == FirstMatch(t.thick_data, <<"Registrar">>)
        kE == FirstMatch(t.thick_data, <<"Registrant", "Email">>)
    IN  ( /\ client.follow_referrals
          /\ ~t.raw
          /\ Done(i)
          /\ t.out.kind = "return"
          /\ Happened(t, "ok", "thick")
          /\ kS # 0
          /\ t.followed = Strip(t.thin_data[kS].value)
          /\ kR # 0
          /\ kE # 0
          /\ ~privacy_protected(t.thick_data) ) =>
          /\ t.out.value["registrar_server"] = t.followed
          /\ "registrar" \in DOMAIN t.out.value
          /\ t.out.value["registrar"] = Strip(t.thick_data[kR].value)
          /\ "registrant_email" \in DOMAIN t.out.value
          /\ t.out.value["registrant_email"] = Strip(t.thick_data[kE].value)
          /\ t.out.value["privacy_protected"] = FALSE

\* The text has no "whois:" line.
NoWhoisLine(text) ==
  \A k \in 1..Len(text) : ~IsSuffix(<<"whois">>, Lower(text[k].label))

\* C10: zone resolution never raises and always yields a server: a failed
\* root query, or a root answer without a "whois:" line, gives the default
\* address of the zone, and the lookup goes on to its thin query; a lookup
\* only ever fails on its thin or thick query.
C10_ZoneResolutionFallsBack ==
  \A i \in 1..Len(tasks) :
    LET t == tasks[i]
    IN  /\ t.phase \in {"thin", "thick", "end"} =>
             /\ t.initial_server # None
             /\ \E k \in 1..Len(t.queries) :
                  t.queries[k] = [phase |-> "thin",
                                  server |-> t.initial_server,
                                  text |-> t.norm]
        /\ ( \/ t.cause["root"] # ""
             \/ Happened(t, "ok", "root") /\ NoWhoisLine(t.iana_data) ) =>
             /\ t.phase # "root"
             /\ t.initial_server = DefaultServer(t.tld)
        /\ t.out.kind = "raise" => Fault(t) # ""

C10_Witness ==
  \E i \in 1..Len(tasks) :
    /\ tasks[i].cause["root"] = "RateLimitError"
    /\ Happened(tasks[i], "query", "thin")
    /\ tasks[i].initial_server = DefaultServer(<<"co", ".", "uk">>)

\* The queries of phase p that t has issued.
QueriesOf(t, p) == SelectSeq(t.queries, LAMBDA q : q.phase = p)

\* C11: a lookup whose zone is in the static table issues no root query and
\* takes the table's server; a lookup whose zone is absent issues exactly one
\* root query, to whois.iana.org with the zone as its text, before any other
\* query.
C11_TableBeforeNetwork ==
  \A i \in 1..Len(tasks) :
    LET t == tasks[i]
    IN  t.pc # "queued" =>
          IF t.tld \in DOMAIN INITIAL_SERVERS
            THEN /\ QueriesOf(t, "root") = <<>>
                 /\ socks[i]["root"] = "none"
                 /\ t.initial_server = INITIAL_SERVERS[t.tld]
            ELSE /\ t.queries # <<>>
                 /\ t.queries[1] = [phase |-> "root",
                                    server |-> <<"whois.iana.org">>,
                                    text |-> t.tld]
                 /\ Len(QueriesOf(t, "root")) = 1

C11_Witness ==
  \E i \in 1..Len(tasks) :
    /\ tasks[i].tld = <<"co", ".", "uk">>
    /\ Len(QueriesOf(tasks[i], "root")) = 1
    /\ Len(QueriesOf(tasks[i], "thin")) = 1

\* The place of a label among the variants of field f.
VariantIndex(f, label) ==
  CHOOSE k \in 1..Len(Variants(f)) : Variants(f)[k] = label

\* The text of px holds two variants of the field px asks for.
OwnVariants == px.op = "field" /\ px.text \in TwoVariantTexts(px.field)

\* C12: for a text with two different label variants of a field and
\* different values, the extracted value is the one on the line of the
\* variant earlier in the field's pattern list, whatever the order of the
\* two lines.
C12_EarlierVariantWins ==
  (OwnVariants /\ px.done) =>
    px.out =
      IF VariantIndex(px.field, px.text[1].label)
           < VariantIndex(px.field, px.text[2].label)
        THEN px.text[1].value
        ELSE px.text[2].value

GenericLabels == { "co", "org", "com" }

\* C16 as stated: the zone is the last two labels when the second-to-last
\* label is a generic registration subdivision, and the last label
\* otherwise.
C16_ZoneByGenericLabel ==
  (px.op = "tld" /\ px.done) =>
    LET l == px.labels
        n == Len(l)
    IN  px.out = IF n >= 2 /\ l[n - 1] \in GenericLabels
                   THEN << l[n - 1], ".", l[n] >>
                   ELSE << l[n] >>

\* C16 amended: the zone is the last two labels when the domain has more
\* than two labels and the second-to-last is a generic registration
\* subdivision, and the last label otherwise; zone("example.com") = "com",
\* zone("example.co.uk") = "co.uk", zone("a.b.c.io") = "io".
C16_ZoneOfLongerDomains ==
  (px.op = "tld" /\ px.done) =>
    LET l == px.labels
        n == Len(l)
    IN  /\ px.out = IF n > 2 /\ l[n - 1] \in GenericLabels
                      THEN << l[n - 1], ".", l[n] >>
                      ELSE << l[n] >>
        /\ l = <<"example", "com">> => px.out = <<"com">>
        /\ l = <<"example", "co", "uk">> => px.out = <<"co", ".", "uk">>
        /\ l = <<"a", "b", "c", "io">> => px.out = <<"io">>

C16_Witness ==
  /\ px.op = "tld"
  /\ px.done
  /\ px.labels = <<"example", "co", "uk">>
  /\ px.out = <<"co", ".", "uk">>

C14_BoundedWorkerPool ==
  [][call.kind = "bulk" /\ call'.kind = "bulk" =>
       /\ Cardinality(InFlight') <= call.concurrency
       /\ \A i \in InFlight' :
            /\ tasks'[i].worker \in 1..call.concurrency
            /\ \A j \in InFlight' \ { i } :
                 tasks'[i].worker # tasks'[j].worker
       /\ \A i \in 1..Len(tasks) :
            /\ (i \in InFlight /\ i \in InFlight') =>
                 tasks'[i].worker = tasks[i].worker
            /\ (tasks[i].pc = "queued" /\ tasks'[i].pc # "queued") =>
                 Cardinality(InFlight) < call.concurrency
            /\ tasks[i].pc = "done" => tasks'[i] = tasks[i]
       /\ results' # results =>
            /\ tasks' = tasks
            /\ socks' = socks
            /\ \E e \in { results'[Len(results')] } :
                 results' = Append(results, e)]_vars

\* Two lookups wait while a pool of one worker runs another, or a lookup
\* waits while a pool of two runs two.
C14_Witness ==
  /\ call.kind = "bulk"
  /\ call.status = "running"
  /\ Cardinality(InFlight) = call.concurrency
  /\ \E i \in 1..Len(tasks) : tasks[i].pc = "queued"

\* C15: a thin or thick query that times out makes lookup fail with
\* QueryTimeoutError, and one whose connection is refused makes lookup fail
\* with ServerNotFoundError, as the caller of lookup sees it.
C15_TimeoutAndRefusedMapped ==
  \A i \in 1..Len(tasks) :
    LET t == tasks[i]
    IN  (call.kind = "lookup" /\ Done(i)
           /\ Fault(t) \in {"timeout", "refused"}) =>
          /\ t.out.kind = "raise"
          /\ t.out.exc.type = IF Fault(t) = "timeout"
                                THEN "QueryTimeoutError"
                                ELSE "ServerNotFoundError"
          /\ call.status = "raised"
          /\ call.exc = t.out.exc

\* A thick query timed out while reading, after a thin query that succeeded.
C15_Witness ==
  \E i \in 1..Len(tasks) :
    /\ Done(i)
    /\ Happened(tasks[i], "ok", "thin")
    /\ tasks[i].cause["thick"] = "timeout"
    /\ socks[i]["thick"] = "open"
    /\ call.exc.type = "QueryTimeoutError"

\* A thin query whose connection was refused.
C15_WitnessRefused ==
  \E i \in 1..Len(tasks) :
    /\ Done(i)
    /\ tasks[i].cause["thin"] = "refused"
    /\ call.exc.type = "ServerNotFoundError"

\* The steps that may follow step a in a lookup: Start, then zone resolution
\* (with or without a root query), the thin query, the thick query when
\* there is a referral, Parsed, Done; a failed thin or thick query leads to
\* Failed, and nothing follows Done or Failed.
Follows(a) ==
  CASE a = Ev("start", "start") -> { Ev("query", "root"), Ev("query", "thin") }
    [] a = Ev("query", "root") -> { Ev("ok", "root"), Ev("fail", "root") }
    [] a \in { Ev("ok", "root"), Ev("fail", "root") } ->
         { Ev("query", "thin") }
    [] a = Ev("query", "thin") -> { Ev("ok", "thin"), Ev("fail", "thin") }
    [] a = Ev("ok", "thin") ->
         { Ev("query", "thick"), Ev("parse", "end"), Ev("return", "end") }
    [] a = Ev("query", "thick") -> { Ev("ok", "thick"), Ev("fail", "thick") }
    [] a = Ev("ok", "thick") -> { Ev("parse", "end"), Ev("return", "end") }
    [] a = Ev("parse", "end") -> { Ev("return", "end") }
    [] a \in { Ev("fail", "thin"), Ev("fail", "thick") } ->
         { Ev("raise", "end") }
    [] OTHER -> {}

\* C17: the steps of every lookup follow the order Start -> ZoneResolved ->
\* ThinQueried -> (ReferralFound -> ThickQueried | NoReferral) -> Parsed ->
\* Done (Parsed being passed exactly by the lookups that are not raw): a
\* thick query is issued only after a successful thin query whose text
\* yielded a referral, with referrals enabled, and goes to that referral;
\* without a referral none is issued; the thin and thick connections of a
\* lookup are never open together and one query at most is pending; parsing
\* comes after the last query; a failed thin or thick query ends the lookup
\* as failed at once, with no record returned.
C17_LookupStepOrder ==
  \A i \in 1..Len(tasks) :
    LET t == tasks[i]
        h == t.hist
        n == Len(h)
    IN  /\ (t.pc = "queued") = (h = <<>>)
        /\ n > 0 => h[1] = Ev("start", "start")
        /\ \A k \in 1..(n - 1) : h[k + 1] \in Follows(h[k])
        /\ Done(i) = (n > 0 /\ h[n].ph = "end" /\ h[n].ev # "parse")
        /\ (t.pc \in {"connect", "recv"}) =
             (n > 0 /\ h[n] = Ev("query", t.phase))
        /\ Happened(t, "query", "thick") =>
             /\ client.follow_referrals
             /\ Truthy(extract_registrar_whois(t.thin_data))
             /\ QueriesOf(t, "thick")
                  = << [phase |-> "thick",
                        server |-> extract_registrar_whois(t.thin_data),
                        text |-> t.norm] >>
        /\ (Happened(t, "ok", "thin") /\ Done(i)
              /\ ~Happened(t, "query", "thick")) =>
             referral_target(client.follow_referrals, t.thin_data) = None
        /\ ~(socks[i]["thin"] = "open" /\ socks[i]["thick"] = "open")
        /\ Happened(t, "parse", "end") = (t.out.kind = "return" /\ ~t.raw)
        /\ (Happened(t, "fail", "thin") \/ Happened(t, "fail", "thick")) =>
             /\ Done(i)
             /\ h[n] = Ev("raise", "end")
             /\ t.out.kind = "raise"
             /\ t.out.value = <<>>

\* A lookup that went through every step: root query, thin query, referral,
\* thick query, parsing.
C17_Witness ==
  \E i \in 1..Len(tasks) :
    /\ tasks[i].hist
         = << Ev("start", "start"), Ev("query", "root"), Ev("ok", "root"),
              Ev("query", "thin"), Ev("ok", "thin"), Ev("query", "thick"),
              Ev("ok", "thick"), Ev("parse", "end"), Ev("return", "end") >>
    /\ call.status = "returned"

\* A lookup whose thick query failed after a successful thin query.
C17_WitnessFailed ==
  \E i \in 1..Len(tasks) :
    /\ Done(i)
    /\ Happened(tasks[i], "ok", "thin")
    /\ Happened(tasks[i], "fail", "thick")

\* The queries of every lookup: at most one to the root server, one thin
\* query once the zone is resolved and no second one, at most one thick
\* query; a query that failed or returned is not issued again, and a lookup
\* whose thick query returned has ended, whatever referral the thick
\* response holds.
QueryCounts ==
  \A i \in 1..Len(tasks) :
    LET t == tasks[i]
    IN  /\ Len(QueriesOf(t, "root")) <= 1
        /\ Len(QueriesOf(t, "thin")) <= 1
        /\ Len(QueriesOf(t, "thick")) <= 1
        /\ Len(t.queries) = Len(QueriesOf(t, "root"))
             + Len(QueriesOf(t, "thin")) + Len(QueriesOf(t, "thick"))
        /\ Done(i) => Len(QueriesOf(t, "thin")) = 1
        /\ \A p \in {"root", "thin", "thick"} :
             (Happened(t, "ok", p) \/ Happened(t, "fail", p)) =>
               /\ Len(QueriesOf(t, p)) = 1
               /\ ~(t.pc \in {"connect", "recv"} /\ t.phase = p)
        /\ Happened(t, "ok", "thick") => Done(i)

\* The most chunks an answer of the network has.
MaxChunks ==
  CHOOSE n \in { Len(r) : r \in Responses } :
    \A r \in Responses : Len(r) <= n

\* A bound on the steps lookup t has left: the queries still possible after
\* its phase, and the steps left in its pending query.
StepsLeft(t) ==
  IF t.pc = "done" THEN 0
  ELSE (MaxChunks + 3) * (CASE t.phase = "start" -> 4
                            [] t.phase = "root" -> 3
                            [] t.phase = "thin" -> 2
                            [] t.phase = "thick" -> 1
                            [] OTHER -> 0)
       + (CASE t.pc = "connect" -> MaxChunks + 2
            [] t.pc = "recv" -> MaxChunks + 1 - Len(t.rx)
            [] OTHER -> 0)

OpenSocks(s) == Cardinality({ p \in Phases : s[p] = "open" })

\* The measure of the lookups ts with sockets ss.
RECURSIVE Measure(_, _)
Measure(ts, ss) ==
  IF ts = <<>> THEN 0
  ELSE 2 * StepsLeft(Head(ts)) + OpenSocks(Head(ss))
         + Measure(Tail(ts), Tail(ss))

\* A running lookup has a blocking call pending: its start, or the connect
\* or recv of a query.
StepPending ==
  \E i \in 1..Len(tasks) :
    \/ tasks[i].pc \in {"queued", "connect"}
    \/ /\ tasks[i].pc = "recv"
       /\ Len(tasks[i].rx) <= MaxChunks
       /\ NextChunks(tasks[i].rx) # {}
            \/ tasks[i].rx \in Answers
            \/ RecvRaises # {}

\* C18: every lookup issues at most one root query, exactly one thin query
\* and at most one thick query, never re-issues a query and never follows a
\* referral of the thick response; and every lookup ends, its queries
\* returning or failing: while lookup runs a step is pending, and every step
\* lowers a measure that is a natural number.
C18_BoundedQueriesAndEnd ==
  [][/\ QueryCounts'
     /\ call'.status = "running" => StepPending'
     /\ call.status = "running" =>
          /\ Measure(tasks', socks') < Measure(tasks, socks)
          /\ Measure(tasks', socks') >= 0]_vars

\* A lookup that returned although its thick response refers on to the very
\* server that sent it.
C18_Witness ==
  \E i \in 1..Len(tasks) :
    /\ Done(i)
    /\ Happened(tasks[i], "ok", "thick")
    /\ tasks[i].out.kind = "return"
    /\ extract_registrar_whois(tasks[i].thick_data) = tasks[i].followed
    /\ call.status = "returned"

====
